---- MODULE Spec2Model ----
(***************************************************************************)
(* A model of osdep/LinuxNetLink.cpp: the rtnetlink agent.  Frames and     *)
(* requests are byte sequences laid out as the kernel headers lay them     *)
(* out, and the receive loop, the message walk, the attribute walks and    *)
(* the request builders read and write them at the offsets the code uses.  *)
(***************************************************************************)
EXTENDS Integers, Sequences, FiniteSets, TLC

(***************************************************************************)
(* Wire constants named by the code.                                        *)
(***************************************************************************)
ZT_NL_BUF_SIZE == 16384
IFNAMSIZ == 16
DelNameCap == 40
MacLen == 6
LabelCopyLen == 40
NLMSG_HDRLEN == 16
RTA_HDRLEN == 4
SizeofIfinfomsg == 16
SizeofIfaddrmsg == 8
SizeofRtmsg == 12
NLMSG_NOOP == 1
NLMSG_ERROR == 2
NLMSG_DONE == 3
NLMSG_OVERRUN == 4
RTM_NEWLINK == 16
RTM_DELLINK == 17
RTM_GETLINK == 18
RTM_NEWADDR == 20
RTM_DELADDR == 21
RTM_NEWROUTE == 24
RTM_DELROUTE == 25
RTM_GETROUTE == 26
NLM_F_MULTI == 2
NLM_F_ACK == 4
IFLA_ADDRESS == 1
IFLA_IFNAME == 3
IFLA_MTU == 4
IFA_ADDRESS == 1
IFA_LOCAL == 2
IFA_LABEL == 3
IFA_BROADCAST == 4
RTA_DST == 1
RTA_SRC == 2
RTA_OIF == 4
RTA_GATEWAY == 5
AF_INET == 2
AF_INET6 == 10

(***************************************************************************)
(* Bytes.  Offsets are 0-based as in C; a sequence holds the bytes.        *)
(***************************************************************************)
\* 4-byte alignment of NLMSG_ALIGN and RTA_ALIGN
Align4(n) == ((n + 3) \div 4) * 4

Pow256(k) == IF k = 0 THEN 1 ELSE IF k = 1 THEN 256 ELSE IF k = 2 THEN 65536 ELSE 16777216

\* the k-byte little-endian image of n (n taken modulo 2^(8k))
LE(n, k) == [i \in 1..k |-> (n \div Pow256(i - 1)) % 256]

Zeros(k) == [i \in 1..k |-> 0]

\* the byte at offset o of memory b; memory past the modelled bytes reads 0
Byte(b, o) == IF o >= 0 /\ o < Len(b) THEN b[o + 1] ELSE 0

U16(b, o) == Byte(b, o) + 256 * Byte(b, o + 1)

U32(b, o) == U16(b, o) + 65536 * U16(b, o + 2)

\* k bytes of memory b starting at offset o
Bytes(b, o, k) == [i \in 1..k |-> Byte(b, o + i - 1)]

\* strlen: the number of bytes before the first 0 at or after offset o
RECURSIVE StrLen(_, _)
StrLen(b, o) == IF Byte(b, o) = 0 THEN 0 ELSE 1 + StrLen(b, o + 1)

\* the C string held by a fixed buffer: the bytes before its first 0
RECURSIVE CStr(_)
CStr(s) == IF s = <<>> \/ Head(s) = 0 THEN <<>> ELSE <<Head(s)>> \o CStr(Tail(s))

\* bit test (v & f) == f for a single-bit flag f
HasFlag(v, f) == (v \div f) % 2 = 1

(***************************************************************************)
(* Wire layout: what the kernel puts on the wire, and what the request     *)
(* builders write.                                                          *)
(***************************************************************************)
\* struct rtattr followed by its payload, padded to RTA_ALIGN
RtAttr(type, payload) ==
    LE(RTA_HDRLEN + Len(payload), 2) \o LE(type, 2) \o payload
        \o Zeros(Align4(Len(payload)) - Len(payload))

\* struct nlmsghdr followed by the message body
NlMsg(type, flags, body) ==
    LE(NLMSG_HDRLEN + Len(body), 4) \o LE(type, 2) \o LE(flags, 2)
        \o LE(0, 4) \o LE(0, 4) \o body \o Zeros(Align4(Len(body)) - Len(body))

\* struct ifinfomsg: family, pad, type, index, flags, change
IfInfo(index) == <<0, 0>> \o LE(1, 2) \o LE(index, 4) \o LE(0, 4) \o LE(0, 4)

\* struct ifaddrmsg: family, prefixlen, flags, scope, index
IfAddr(family, prefixlen, index) == <<family, prefixlen, 128, 0>> \o LE(index, 4)

\* struct rtmsg: family, dst_len, src_len, tos, table, protocol, scope, type, flags
RtMsg(family, dstlen, srclen) ==
    <<family, dstlen, srclen, 0, 254, 4, 0, 1>> \o LE(0, 4)

\* struct nlmsgerr: the error code (a 32-bit two's complement int, here of
\* magnitude below 2^24) followed by the header of the failed request
NlErr(code) ==
    (IF code >= 0 THEN LE(code, 4) ELSE LE(code + 16777216, 3) \o <<255>>)
        \o Zeros(NLMSG_HDRLEN)

(***************************************************************************)
(* The message walk of _processMessage and the attribute walks of the      *)
(* handlers.                                                                *)
(***************************************************************************)
\* NLMSG_OK(nlp, nll) for the message at offset o with nll bytes left
NlmsgOk(b, o, nll) == nll >= NLMSG_HDRLEN /\ U32(b, o) >= NLMSG_HDRLEN /\ U32(b, o) <= nll

\* RTA_OK(rtap, len) for the attribute at offset o with len bytes left
RtaOk(b, o, len) == len >= RTA_HDRLEN /\ U16(b, o) >= RTA_HDRLEN /\ U16(b, o) <= len

\* the offsets of the attributes the loop for(;RTA_OK;RTA_NEXT) visits
RECURSIVE RtaWalk(_, _, _)
RtaWalk(b, o, len) ==
    IF RtaOk(b, o, len)
    THEN <<o>> \o RtaWalk(b, o + Align4(U16(b, o)), len - Align4(U16(b, o)))
    ELSE <<>>

\* the end of the bytes the walk's RTA_OK tests read: the rta_len of every
\* attribute header it looks at, the one that ends the walk included
RECURSIVE RtaWalkRead(_, _, _)
RtaWalkRead(b, o, len) ==
    IF len < RTA_HDRLEN THEN 0
    ELSE IF RtaOk(b, o, len)
         THEN LET r == RtaWalkRead(b, o + Align4(U16(b, o)), len - Align4(U16(b, o)))
              IN IF r > o + 2 THEN r ELSE o + 2
         ELSE o + 2

Max(a, c) == IF a >= c THEN a ELSE c

Min(a, c) == IF a <= c THEN a ELSE c

(***************************************************************************)
(* The handlers' attribute loops.  A handler's locals are a record: the    *)
(* values it decodes (mac_bin, mtu, ifname), and what the loop did to      *)
(* memory: wrote, the most bytes one memcpy put into the name buffer; hi,  *)
(* the end of the highest byte read; over, whether a payload was read past *)
(* the length its attribute declares.                                      *)
(***************************************************************************)
\* memcpy(dst, src, n) into a fixed buffer: the bytes that land inside it
Overlay(dst, src) == [i \in 1..Len(dst) |-> IF i <= Len(src) THEN src[i] ELSE dst[i]]

\* the locals as declared: {0}-initialised buffers, mtu = 0
Locals(cap) ==
    [mac_bin |-> Zeros(MacLen), mtu |-> 0, ifname |-> Zeros(cap),
     wrote |-> 0, hi |-> 0, over |-> FALSE]

\* a read of n payload bytes of the attribute at offset o
ReadPayload(b, o, n, st) ==
    [st EXCEPT !.hi = Max(@, o + RTA_HDRLEN + n),
               !.over = @ \/ n > U16(b, o) - RTA_HDRLEN]

\* the bytes inet_ntop reads for an address family
InetLen(family) == IF family = AF_INET THEN 4 ELSE IF family = AF_INET6 THEN 16 ELSE 0

\* case IFLA_IFNAME: memcpy(ifname, ptr, strlen(ptr))
CopyName(b, o, st) ==
    LET d == o + RTA_HDRLEN
        n == StrLen(b, d)
    IN  [ReadPayload(b, o, n + 1, st) EXCEPT
            !.ifname = Overlay(@, Bytes(b, d, Min(n, Len(@)))),
            !.wrote = Max(@, n)]

\* the switch of _linkAdded
LinkAddedAttr(b, o, st) ==
    LET ty == U16(b, o + 2)
        d == o + RTA_HDRLEN
    IN  CASE ty = IFLA_ADDRESS ->
                [ReadPayload(b, o, MacLen, st) EXCEPT !.mac_bin = Bytes(b, d, MacLen)]
          [] ty = IFLA_IFNAME -> CopyName(b, o, st)
          [] ty = IFLA_MTU -> [ReadPayload(b, o, 4, st) EXCEPT !.mtu = U32(b, d)]
          [] OTHER -> st

\* the switch of _linkDeleted
LinkDeletedAttr(b, o, st) ==
    LET ty == U16(b, o + 2)
        d == o + RTA_HDRLEN
    IN  CASE ty = IFLA_IFNAME -> CopyName(b, o, st)
          [] ty = IFLA_MTU -> [ReadPayload(b, o, 4, st) EXCEPT !.mtu = U32(b, d)]
          [] OTHER -> st

\* the switch of _ipAddressAdded and _ipAddressDeleted
IpAddressAttr(b, o, family, st) ==
    LET ty == U16(b, o + 2)
    IN  CASE ty \in {IFA_ADDRESS, IFA_LOCAL, IFA_BROADCAST} ->
                ReadPayload(b, o, InetLen(family), st)
          [] ty = IFA_LABEL -> ReadPayload(b, o, LabelCopyLen, st)
          [] OTHER -> st

\* the switch of _routeAdded and _routeDeleted
RouteAttr(b, o, family, st) ==
    LET ty == U16(b, o + 2)
    IN  CASE ty \in {RTA_DST, RTA_SRC, RTA_GATEWAY} ->
                ReadPayload(b, o, InetLen(family), st)
          [] ty = RTA_OIF -> ReadPayload(b, o, 4, st)
          [] OTHER -> st

\* one handler's loop over the attributes at offsets offs
RECURSIVE AttrLoop(_, _, _, _, _)
AttrLoop(kind, b, offs, family, st) ==
    IF offs = <<>> THEN st
    ELSE AttrLoop(kind, b, Tail(offs), family,
            CASE kind = "linkAdded" -> LinkAddedAttr(b, Head(offs), st)
              [] kind = "linkDeleted" -> LinkDeletedAttr(b, Head(offs), st)
              [] kind = "ipAddress" -> IpAddressAttr(b, Head(offs), family, st)
              [] OTHER -> RouteAttr(b, Head(offs), family, st))

\* which handler _processMessage calls for a message type ("" for default)
HandlerOf(type) ==
    CASE type = RTM_NEWLINK -> "linkAdded"
      [] type = RTM_DELLINK -> "linkDeleted"
      [] type \in {RTM_NEWADDR, RTM_DELADDR} -> "ipAddress"
      [] type \in {RTM_NEWROUTE, RTM_DELROUTE} -> "route"
      [] OTHER -> ""

\* the size of the fixed header a handler casts NLMSG_DATA to
FixedHdr(kind) ==
    CASE kind \in {"linkAdded", "linkDeleted"} -> SizeofIfinfomsg
      [] kind = "ipAddress" -> SizeofIfaddrmsg
      [] OTHER -> SizeofRtmsg

\* the length a handler gives its attribute loop: RTM_PAYLOAD(nlp) in the
\* link and route handlers, IFA_PAYLOAD(nlp) in the address handlers
WalkLen(kind, b, m) ==
    IF kind = "ipAddress"
    THEN U32(b, m) - (NLMSG_HDRLEN + Align4(SizeofIfaddrmsg))
    ELSE U32(b, m) - (NLMSG_HDRLEN + Align4(SizeofRtmsg))

\* where a handler's attribute loop starts: IFLA_RTA, IFA_RTA, RTM_RTA
WalkStart(kind, m) == m + NLMSG_HDRLEN + Align4(FixedHdr(kind))

\* the end of the last fixed-header field a handler reads: ifi_index,
\* ifa_family, rtm_dst_len
FixedRead(kind, m) ==
    CASE kind \in {"linkAdded", "linkDeleted"} -> m + NLMSG_HDRLEN + 8
      [] kind = "ipAddress" -> m + NLMSG_HDRLEN + 1
      [] OTHER -> m + NLMSG_HDRLEN + 2

\* the capacity of the handler's name buffer
NameCap(kind) == IF kind = "linkDeleted" THEN DelNameCap ELSE IFNAMSIZ

\* the locals of the handler for the message at offset m of b when its
\* attribute loop has ended
Decode(kind, b, m) ==
    LET st == AttrLoop(kind, b, RtaWalk(b, WalkStart(kind, m), WalkLen(kind, b, m)),
                       Byte(b, m + NLMSG_HDRLEN), Locals(NameCap(kind)))
    IN  [st EXCEPT !.hi = Max(Max(@, RtaWalkRead(b, WalkStart(kind, m), WalkLen(kind, b, m))),
                              FixedRead(kind, m))]

(***************************************************************************)
(* _doRecv: what one pass of the loop body does with a received frame.     *)
(* Every branch of the body ends in break (lines 133, 137, 146, 158, 167,  *)
(* 169), so one call performs one recv.                                    *)
(***************************************************************************)
\* (mutant) the loop body without its test for an error frame
RecvNllNoErrorTest(b, rtn) ==
    LET type == U16(b, 4)
        flags == U16(b, 6)
    IN  IF rtn <= 0 THEN -1
        ELSE IF type = NLMSG_NOOP THEN -1
        ELSE IF type = NLMSG_DONE THEN 0
        ELSE IF type = NLMSG_OVERRUN THEN -1
        ELSE IF HasFlag(flags, NLM_F_MULTI) THEN rtn + rtn
        ELSE rtn

\* the nll handed to _processMessage for a frame of rtn bytes at buf, or -1
\* when the body leaves the loop without calling _processMessage
RecvNll(b, rtn) ==
    LET type == U16(b, 4)
        flags == U16(b, 6)
    IN  IF rtn <= 0 THEN -1
        ELSE IF type = NLMSG_ERROR /\ ~HasFlag(flags, NLM_F_ACK) THEN -1
        ELSE IF type = NLMSG_NOOP THEN -1
        ELSE IF type = NLMSG_DONE THEN 0
        ELSE IF type = NLMSG_OVERRUN THEN -1
        ELSE IF HasFlag(flags, NLM_F_MULTI) THEN rtn + rtn
        ELSE rtn

(***************************************************************************)
(* The cache operations.  _interfaces maps an index to an iface_entry.     *)
(***************************************************************************)
\* the empty _interfaces table
NoIfs == [k \in {} |-> 0]

\* lines 392-398: _interfaces[ifi_index] is created or overwritten
LinkAddedEffect(ifs, index, st) ==
    [k \in DOMAIN ifs \cup {index} |->
        IF k = index
        THEN [index |-> index, ifacename |-> st.ifname,
              mac_bin |-> st.mac_bin, mtu |-> st.mtu]
        ELSE ifs[k]]

\* (mutant) the table is cleared instead of one key erased
LinkDeletedClears(ifs, index) == IF index \in DOMAIN ifs THEN NoIfs ELSE ifs

\* lines 426-429: erase the key when the table contains it
LinkDeletedEffect(ifs, index) ==
    IF index \in DOMAIN ifs
    THEN [k \in DOMAIN ifs \ {index} |-> ifs[k]]
    ELSE ifs

\* _indexForInterface: the indices the scan can return for a name, -1 when
\* no entry matches.  strcmp stops at the first 0 of ifacename; an entry
\* whose 16 bytes hold no 0 cannot equal a name shorter than the buffer.
\* The table's iteration order is not in this file: any match may come first.
IndexForInterface(ifs, iface) ==
    LET hits == {k \in DOMAIN ifs :
                    /\ CStr(ifs[k].ifacename) = iface
                    /\ Len(iface) < IFNAMSIZ}
    IN  IF hits = {} THEN {-1} ELSE {ifs[k].index : k \in hits}

(***************************************************************************)
(* The environment: the frames the kernel delivers.                         *)
(***************************************************************************)
NameA == <<97>>

NameB == <<98>>

NameC == <<99>>

NameABC == <<97, 98, 99>>

\* an interface name no entry ever carries
NameZ == <<122, 122>>

\* names longer than the handlers' buffers (IFNAMSIZ + 1 and DelNameCap + 1)
NameLong == [i \in 1..(IFNAMSIZ + 1) |-> 120]

NameLonger == [i \in 1..(DelNameCap + 1) |-> 121]

Mac1 == <<2, 17, 34, 51, 68, 85>>

\* a 4-byte hardware address, as tunnel devices report
Mac4 == <<10, 0, 0, 1>>

Ip4Net == <<10, 0, 0, 0>>

Ip4Gw == <<10, 0, 0, 1>>

Ip4Src == <<10, 0, 0, 5>>

Ip4Bcast == <<10, 0, 0, 255>>

Ip6Net == <<253, 0>> \o Zeros(14)

\* a name attribute carries the terminating 0
AName(n) == RtAttr(IFLA_IFNAME, n \o <<0>>)

AMtu(v) == RtAttr(IFLA_MTU, LE(v, 4))

LinkMsg(type, flags, index, attrs) == NlMsg(type, flags, IfInfo(index) \o attrs)

\* index 1 "a" with MAC and MTU; index 2 "b" alone; index 1 renamed "c"
NewLink1(flags) ==
    LinkMsg(RTM_NEWLINK, flags, 1, AName(NameA) \o RtAttr(IFLA_ADDRESS, Mac1) \o AMtu(1500))

NewLink2(flags) == LinkMsg(RTM_NEWLINK, flags, 2, AName(NameB))

NewLink1c == LinkMsg(RTM_NEWLINK, 0, 1, AName(NameC) \o AMtu(9000))

\* index 2 with a 4-byte hardware address followed by the MTU
NewLinkMac4 == LinkMsg(RTM_NEWLINK, 0, 2, AName(NameB) \o RtAttr(IFLA_ADDRESS, Mac4) \o AMtu(1480))

\* index 2 with a name of IFNAMSIZ + 1 characters
NewLinkLong == LinkMsg(RTM_NEWLINK, 0, 2, AName(NameLong))

\* index 2 with two name attributes, "abc" then "b"
NewLinkTwoNames == LinkMsg(RTM_NEWLINK, 0, 2, AName(NameABC) \o AName(NameB))

DelLink1 == LinkMsg(RTM_DELLINK, 0, 1, AName(NameA) \o AMtu(1500))

DelLink3 == LinkMsg(RTM_DELLINK, 0, 3, AName(NameC))

DelLinkLonger == LinkMsg(RTM_DELLINK, 0, 2, AName(NameLonger))

AddrMsg(type) ==
    NlMsg(type, 0, IfAddr(AF_INET, 24, 1) \o RtAttr(IFA_ADDRESS, Ip4Src)
        \o RtAttr(IFA_LOCAL, Ip4Src) \o RtAttr(IFA_BROADCAST, Ip4Bcast)
        \o RtAttr(IFA_LABEL, NameA \o <<0>>))

RouteMsg(type, flags) ==
    NlMsg(type, flags, RtMsg(AF_INET, 24, 0) \o RtAttr(RTA_DST, Ip4Net)
        \o RtAttr(RTA_GATEWAY, Ip4Gw) \o RtAttr(RTA_OIF, LE(1, 4)))

\* a message type _processMessage has no case for (RTM_NEWNEIGH)
OtherMsg == NlMsg(28, 0, Zeros(12))

\* an error frame (EEXIST), the acknowledgement (error 0), and an error
\* frame that carries NLM_F_ACK in its flags
ErrMsg == NlMsg(NLMSG_ERROR, 0, NlErr(-17))

AckMsg == NlMsg(NLMSG_ERROR, 0, NlErr(0))

ErrAckMsg == NlMsg(NLMSG_ERROR, NLM_F_ACK, NlErr(-17))

NoopMsg == NlMsg(NLMSG_NOOP, 0, <<>>)

DoneMsg == NlMsg(NLMSG_DONE, NLM_F_MULTI, LE(0, 4))

OverrunMsg == NlMsg(NLMSG_OVERRUN, 0, <<>>)

\* what the buffer (valloc'ed, never cleared) can hold after the received
\* bytes: the tail of an earlier, longer frame (a link-removed message for
\* index 1), or four bytes that read as an empty MTU attribute followed by
\* four more
StaleBytes == {DelLink1, <<4, 0, 4, 0, 57, 5, 0, 0>>}

(***************************************************************************)
(* InetAddress values, as the request builders use them: operator bool     *)
(* (ss_family != 0), isV4(), the raw address bytes, netmaskBits()/port().   *)
(***************************************************************************)
NilAddr == [family |-> 0, ip |-> <<>>, bits |-> 0]

Inet4(ip, bits) == [family |-> AF_INET, ip |-> ip, bits |-> bits]

Inet6(ip, bits) == [family |-> AF_INET6, ip |-> ip, bits |-> bits]

\* the bytes the builders copy for an address: sizeof(in_addr) or sizeof(in6_addr)
AddrBytes(a) == IF a.family = AF_INET THEN Bytes(a.ip, 0, 4) ELSE Bytes(a.ip, 0, 16)

\* one attribute as the builders write it: rta_type, rta_len = RTA_LENGTH(n), payload
PutAttr(type, payload) == LE(RTA_HDRLEN + Len(payload), 2) \o LE(type, 2) \o payload

\* the nlmsghdr the builders fill in: nlmsg_len = NLMSG_LENGTH(rtl), pid 0
PutHdr(rtl, type, flags, sq) ==
    LE(NLMSG_HDRLEN + rtl, 4) \o LE(type, 2) \o LE(flags, 2) \o LE(sq, 4) \o LE(0, 4)

\* sendmsg: iov_len = nlmsg_len bytes of the request structure, whose
\* buffer was zeroed before the attributes were written
SentBytes(req) == Bytes(req, 0, U32(req, 0))

\* addRoute and delRoute, lines 620-682 and 735-797: the request structure
\* up to the end of the last attribute written.  ifx is the index found for
\* ifaceName, -1 when NULL or not found.  The source attribute is written
\* but rtl is not advanced for it.
RouteBuffer(type, flags, target, via, src, ifx, sq) ==
    LET dst == PutAttr(RTA_DST, AddrBytes(target))
        mid == IF via.family # 0 THEN PutAttr(RTA_GATEWAY, AddrBytes(via))
               ELSE IF src.family # 0 THEN PutAttr(RTA_SRC, AddrBytes(src))
               ELSE <<>>
        oif == IF ifx # -1 THEN PutAttr(RTA_OIF, LE(ifx, 4)) ELSE <<>>
        rtl == SizeofRtmsg + Len(dst)
                + (IF via.family # 0 THEN Len(mid) ELSE 0) + Len(oif)
        srclen == IF via.family = 0 /\ src.family # 0 THEN src.bits ELSE 0
    IN  PutHdr(rtl, type, flags, sq)
            \o RtMsg(target.family, target.bits, srclen)
            \o dst \o mid \o oif

\* the bytes addRoute and delRoute hand to sendmsg
RouteRequest(type, flags, target, via, src, ifx, sq) ==
    SentBytes(RouteBuffer(type, flags, target, via, src, ifx, sq))

\* addAddress and removeAddress, lines 864-916 and 976-1028: the request
\* structure up to the end of the last attribute written
AddressBuffer(type, flags, addr, bcast, iface, ifx, sq) ==
    LET a == PutAttr(IFA_ADDRESS, AddrBytes(addr))
        v4 == IF addr.family = AF_INET
              THEN PutAttr(IFA_LOCAL, AddrBytes(addr))
                     \o (IF bcast.family # 0 THEN PutAttr(IFA_BROADCAST, AddrBytes(bcast)) ELSE <<>>)
              ELSE <<>>
        label == PutAttr(IFA_LABEL, iface)
        rtl == SizeofIfaddrmsg + Len(a) + Len(v4) + Len(label)
    IN  PutHdr(rtl, type, flags, sq)
            \o IfAddr(addr.family, addr.bits, ifx)
            \o a \o v4 \o label

\* the bytes addAddress and removeAddress hand to sendmsg
AddressRequest(type, flags, addr, bcast, iface, ifx, sq) ==
    SentBytes(AddressBuffer(type, flags, addr, bcast, iface, ifx, sq))

\* the three dump requests, lines 453-461, 506-514, 559-566
DumpRequest(name, sq) ==
    CASE name = "_requestIPv4Routes" ->
            PutHdr(SizeofRtmsg, RTM_GETROUTE, 769, sq) \o <<AF_INET, 0, 0, 0, 254, 0, 0, 0>> \o LE(0, 4)
      [] name = "_requestIPv6Routes" ->
            PutHdr(SizeofRtmsg, RTM_GETROUTE, 769, sq) \o <<AF_INET6, 0, 0, 0, 254, 0, 0, 0>> \o LE(0, 4)
      [] OTHER ->
            PutHdr(SizeofIfinfomsg, RTM_GETLINK, 769, sq) \o Zeros(SizeofIfinfomsg)

(***************************************************************************)
(* State.                                                                   *)
(***************************************************************************)
VARIABLES
    world,        \* which environment the run draws its inputs from
    proc,         \* "alive", "exited" (::exit(1)) or "smashed" (a stack buffer overrun ended it)
    pc,           \* each thread's position
    op,           \* each thread's current call and its arguments
    fd,           \* each thread's local fd (-1: none)
    mfd,          \* _fd, the monitor socket (-1: socket() failed)
    socks,        \* the process's descriptors: state, bound nl_pid, owner
    running,      \* _running
    interfaces,   \* _interfaces
    routes_ipv4,  \* _routes_ipv4
    routes_ipv6,  \* _routes_ipv6
    seq,          \* _seq
    seqLoaded,    \* the value of _seq a thread's ++_seq has read and not yet stored, or -1
    rx,           \* each thread's _doRecv locals: buf, rtn, and the walk of _processMessage
    inq,          \* the frames queued on each thread's ephemeral socket
    resp,         \* the response the kernel queued for the thread's last request
    wire,         \* the bytes of each thread's last sendmsg
    ifx,          \* each thread's interface_index local
    reps,         \* addAddress's retry counter
    opsLeft,      \* calls the caller may still start
    seeded,       \* the seeding dumps that have returned
    acc,          \* each thread's current or latest cache access: the cache, the guard held
    disp,         \* the messages _processMessage dispatched in the thread's current _doRecv
    obs           \* what the last handler run did: lengths, reads, name copy

vars == <<world, seqLoaded, acc, proc, pc, op, fd, mfd, socks, running, interfaces, routes_ipv4,
          routes_ipv6, seq, rx, inq, resp, wire, ifx, reps, opsLeft, seeded, disp, obs>>

Threads == {"main", "mon", "w"}

\* the threads that call the instance: the owner, and a second caller
Callers == {"main", "w"}

FdSet == {3, 4, 5}

\* calls one caller thread makes between construction and destruction
MaxOps == 1

\* the retries of addAddress, line 853
MaxReps == 10

SeedOps == {"_requestIPv4Routes", "_requestIPv6Routes", "_requestInterfaceList"}

NoOp == [name |-> "", target |-> NilAddr, via |-> NilAddr, src |-> NilAddr, iface |-> <<>>, hasIf |-> FALSE]

SeedOp(name) == [NoOp EXCEPT !.name = name]

NoRx == [buf |-> <<>>, rtn |-> 0, off |-> 0, nll |-> 0]

NoObs == [kind |-> "", thread |-> "", index |-> 0, len |-> 0, hi |-> 0, over |-> FALSE,
          walk |-> 0, cap |-> 0, wrote |-> 0, had |-> FALSE]

\* no cache access; an access to _interfaces under Mutex::Lock l(_if_m)
NoAcc == [cache |-> "", guard |-> ""]

IfAcc == [cache |-> "_interfaces", guard |-> "_if_m"]

\* getIPV4Routes / getIPV6Routes copy their collection with no lock taken
RoutesAcc(name) ==
    [cache |-> IF name = "getIPV4Routes" THEN "_routes_ipv4" ELSE "_routes_ipv6", guard |-> ""]

FreeSock == [st |-> "free", pid |-> "", owner |-> "", tmo |-> FALSE]

\* socket(): the lowest free descriptor
LowestFree == CHOOSE f \in FdSet : socks[f].st = "free" /\ \A g \in FdSet : socks[g].st = "free" => f <= g

\* (mutant) the constructor sets _running and starts the thread before it
\* requests the interface list
CtorAfterEarlyStart(stage) ==
    CASE stage = "bind" -> "_requestIPv4Routes"
      [] stage = "_requestIPv4Routes" -> "_requestIPv6Routes"
      [] OTHER -> "run"

\* the constructor's order, lines 71-81
CtorAfter(stage) ==
    CASE stage = "bind" -> "_requestIPv4Routes"
      [] stage = "_requestIPv4Routes" -> "_requestIPv6Routes"
      [] stage = "_requestIPv6Routes" -> "_requestInterfaceList"
      [] OTHER -> "run"

(***************************************************************************)
(* The inputs of a run.  In world "decode" the kernel's frames and the     *)
(* stale bytes of the receive buffer are varied and the callers make no    *)
(* calls; in world "build" the callers' arguments are varied and the only  *)
(* notifications are link-added and link-removed for index 1; in world     *)
(* "system" both are few; in world "faults" setsockopt and valloc can fail *)
(* and the callers make no calls; in world "callers" two threads call the  *)
(* instance at once and the monitor receives only unrecognized messages.   *)
(***************************************************************************)
\* _setSocketTimeout, lines 91-101: whether SO_RCVTIMEO is in force after
\* it; setsockopt's failure is not reported to the caller
SetTimeout == IF world = "faults" THEN {TRUE, FALSE} ELSE {TRUE}

\* whether valloc can return NULL in _doRecv (lines 106-110)
AllocFails == world = "faults"

\* what follows the received bytes in the buffer: zeros, or stale bytes
Junk == IF world = "decode" THEN {<<>>} \cup StaleBytes ELSE {<<>>}

\* the frames the monitor socket can deliver
MonFrames ==
    IF world = "decode"
    THEN {NewLink1(0), NewLink2(0), NewLink1c, NewLinkMac4, NewLinkLong, NewLinkTwoNames,
          DelLink1, DelLink3, DelLinkLonger, AddrMsg(RTM_NEWADDR), AddrMsg(RTM_DELADDR),
          RouteMsg(RTM_NEWROUTE, 0), RouteMsg(RTM_DELROUTE, 0), OtherMsg,
          ErrMsg \o NewLink2(0), NoopMsg \o NewLink2(0), ErrAckMsg \o NewLink2(0),
          OverrunMsg, DoneMsg, NewLink1(0) \o NewLink2(0), NewLink2(NLM_F_MULTI)}
    ELSE IF world \in {"build", "faults"}
    THEN {NewLink1(0), DelLink1}
    ELSE IF world = "callers"
    THEN {OtherMsg}
    ELSE {NewLink1(0), DelLink1, AddrMsg(RTM_NEWADDR), RouteMsg(RTM_NEWROUTE, 0), OtherMsg}

\* the responses the kernel can queue for a dump request: data frames of
\* multi-part messages ended by a done frame, an error frame, or nothing
\* before the receive timeout
DumpResponses(name) ==
    IF name = "_requestInterfaceList"
    THEN IF world = "decode"
         THEN {<<NewLink1(NLM_F_MULTI) \o NewLink2(NLM_F_MULTI), DoneMsg>>,
               <<NewLink1(NLM_F_MULTI), NewLink2(NLM_F_MULTI), DoneMsg>>,
               <<DoneMsg>>, <<ErrMsg>>, <<>>}
         ELSE {<<NewLink1(NLM_F_MULTI), DoneMsg>>, <<>>}
    ELSE {<<RouteMsg(RTM_NEWROUTE, NLM_F_MULTI), DoneMsg>>, <<>>}

\* the responses to a mutating request: the acknowledgement, an error, nothing
MutResponses == {<<AckMsg>>, <<ErrMsg>>, <<>>}

Responses(name) == IF name \in SeedOps THEN DumpResponses(name) ELSE MutResponses

IsRouteOp(n) == n \in {"addRoute", "delRoute"}

IsGetOp(n) == n \in {"getIPV4Routes", "getIPV6Routes"}

RouteArgs ==
    {[name |-> n, target |-> t, via |-> v, src |-> s, iface |-> i[1], hasIf |-> i[2]] :
        n \in {"addRoute", "delRoute"},
        t \in {NilAddr, Inet4(Ip4Net, 24), Inet6(Ip6Net, 64)},
        v \in {NilAddr, Inet4(Ip4Gw, 32)},
        s \in {NilAddr, Inet4(Ip4Src, 32)},
        i \in {<<<<>>, FALSE>>, <<NameA, TRUE>>, <<NameZ, TRUE>>}}

AddressArgs ==
    {[name |-> n, target |-> a, via |-> NilAddr, src |-> NilAddr, iface |-> i, hasIf |-> TRUE] :
        n \in {"addAddress", "removeAddress"},
        a \in {Inet4(Ip4Src, 24), Inet6(Ip6Net, 64)},
        i \in {NameA, NameZ}}

GetArgs == {[NoOp EXCEPT !.name = n] : n \in {"getIPV4Routes", "getIPV6Routes"}}

\* the calls a caller can make
OpChoices ==
    IF world = "build" THEN RouteArgs \cup AddressArgs \cup GetArgs
    ELSE IF world = "callers"
    THEN {o \in RouteArgs \cup AddressArgs :
            /\ o.name \in {"addRoute", "addAddress"}
            /\ o.target.family = AF_INET /\ o.src.family = 0 /\ o.iface = NameA
            /\ IsRouteOp(o.name) => o.via.family # 0}
    ELSE {o \in RouteArgs \cup AddressArgs \cup GetArgs :
            /\ o.target.family # AF_INET6
            /\ IsRouteOp(o.name) =>
                  \/ o.target.family = 0 /\ o.via.family = 0 /\ o.src.family = 0 /\ ~o.hasIf
                  \/ o.target.family # 0 /\ o.via.family # 0 /\ o.src.family = 0
                       /\ o.iface = NameA}

\* InetAddress::broadcast(): the v4 address with its host bits set; nil for v6
Broadcast(a) == IF a.family = AF_INET THEN Inet4(Ip4Bcast, a.bits) ELSE NilAddr

(***************************************************************************)
(* Construction, lines 52-82.                                               *)
(***************************************************************************)
InitIn(w) ==
    /\ world = w
    /\ proc = "alive"
    /\ pc = [t \in Threads |-> CASE t = "main" -> "ctor_socket"
                                  [] t = "mon" -> "unborn"
                                  [] OTHER -> "idle"]
    /\ op = [t \in Threads |-> NoOp]
    /\ fd = [t \in Threads |-> -1]
    /\ mfd = -1
    /\ socks = [f \in FdSet |-> FreeSock]
    /\ running = FALSE
    /\ interfaces = NoIfs
    /\ routes_ipv4 = <<>>
    /\ routes_ipv6 = <<>>
    /\ seq = 0
    /\ seqLoaded = [t \in Threads |-> -1]
    /\ rx = [t \in Threads |-> NoRx]
    /\ inq = [t \in Threads |-> <<>>]
    /\ resp = [t \in Threads |-> <<>>]
    /\ wire = [t \in Threads |-> <<>>]
    /\ ifx = [t \in Threads |-> -1]
    /\ reps = [t \in Threads |-> 0]
    /\ opsLeft = IF w = "callers" THEN MaxOps * Cardinality(Callers) ELSE MaxOps
    /\ seeded = {}
    /\ disp = [t \in Threads |-> <<>>]
    /\ obs = NoObs
    /\ acc = [t \in Threads |-> NoAcc]

Init == InitIn("system")

InitFaults == InitIn("faults")

InitBuild == InitIn("build")

InitCallers == InitIn("callers")

InitDecode == InitIn("decode")

\* line 62: _fd(socket(...)), which can fail, and line 66:
\* _setSocketTimeout(_fd, 1), whose failure is ignored
CtorSocket ==
    /\ proc = "alive" /\ pc["main"] = "ctor_socket"
    /\ \/ /\ mfd' = LowestFree
          /\ \E tm \in SetTimeout :
                socks' = [socks EXCEPT ![LowestFree] =
                            [st |-> "open", pid |-> "", owner |-> "monitor", tmo |-> tm]]
       \/ /\ mfd' = -1
          /\ UNCHANGED socks
    /\ pc' = [pc EXCEPT !["main"] = "ctor_bind"]
    /\ UNCHANGED <<world, seqLoaded, acc, proc, op, fd, running, interfaces, routes_ipv4, routes_ipv6, seq,
                   rx, inq, resp, wire, ifx, reps, opsLeft, seeded, disp, obs>>

\* lines 68-76: bind to getpid()+1; failure ends the process
CtorBind ==
    /\ proc = "alive" /\ pc["main"] = "ctor_bind"
    /\ \/ /\ mfd # -1
          /\ socks' = [socks EXCEPT ![mfd] = [@ EXCEPT !.st = "bound", !.pid = "getpid+1"]]
          /\ pc' = [pc EXCEPT !["main"] = "tx_socket"]
          /\ op' = [op EXCEPT !["main"] = SeedOp(CtorAfter("bind"))]
          /\ UNCHANGED proc
       \/ /\ proc' = "exited"
          /\ UNCHANGED <<socks, pc, op>>
    /\ UNCHANGED <<world, seqLoaded, acc, fd, mfd, running, interfaces, routes_ipv4, routes_ipv6, seq,
                   rx, inq, resp, wire, ifx, reps, opsLeft, seeded, disp, obs>>

\* line 80
CtorRun ==
    /\ proc = "alive" /\ pc["main"] = "ctor_run"
    /\ running' = TRUE
    /\ pc' = [pc EXCEPT !["main"] = "ctor_start"]
    /\ UNCHANGED <<world, seqLoaded, acc, proc, op, fd, mfd, socks, interfaces, routes_ipv4, routes_ipv6, seq,
                   rx, inq, resp, wire, ifx, reps, opsLeft, seeded, disp, obs>>

\* line 81: Thread::start(this)
CtorStart ==
    /\ proc = "alive" /\ pc["main"] = "ctor_start"
    /\ pc' = [pc EXCEPT !["main"] = "idle", !["mon"] = "mon_loop"]
    /\ UNCHANGED <<world, seqLoaded, acc, proc, op, fd, mfd, socks, running, interfaces, routes_ipv4,
                   routes_ipv6, seq, rx, inq, resp, wire, ifx, reps, opsLeft, seeded, disp, obs>>

(***************************************************************************)
(* One transaction: the three dump requests and the four mutating calls    *)
(* share socket / bind / send / _doRecv / close.                            *)
(***************************************************************************)
\* a call returns: the constructor goes on in its order, a caller is idle
Ret(t) ==
    LET n == op[t].name
        next == CtorAfter(n)
    IN  /\ pc' = [pc EXCEPT ![t] = IF n \in SeedOps
                                   THEN (IF next = "run" THEN "ctor_run" ELSE "tx_socket")
                                   ELSE "idle"]
        /\ op' = [op EXCEPT ![t] = IF n \in SeedOps /\ next # "run" THEN SeedOp(next) ELSE NoOp]
        /\ seeded' = IF n \in SeedOps THEN seeded \cup {n} ELSE seeded
        /\ wire' = [wire EXCEPT ![t] = <<>>]
        /\ resp' = [resp EXCEPT ![t] = IF n = "_requestInterfaceList" THEN @ ELSE <<>>]

\* close(fd)
Close(f) == socks' = [socks EXCEPT ![f] = FreeSock]

\* `if (!target) return;`, then socket() and _setSocketTimeout(fd)
TxSocket(t) ==
    /\ proc = "alive" /\ pc[t] = "tx_socket"
    /\ IF IsRouteOp(op[t].name) /\ op[t].target.family = 0
       THEN Ret(t) /\ UNCHANGED <<fd, socks>>
       ELSE \/ /\ \E f \in FdSet : socks[f].st = "free"
               /\ fd' = [fd EXCEPT ![t] = LowestFree]
               /\ \E tm \in SetTimeout :
                     socks' = [socks EXCEPT ![LowestFree] =
                                 [st |-> "open", pid |-> "", owner |-> t, tmo |-> tm]]
               /\ pc' = [pc EXCEPT ![t] = "tx_bind"]
               /\ UNCHANGED <<op, seeded, wire, resp>>
            \/ Ret(t) /\ UNCHANGED <<fd, socks>>
    /\ UNCHANGED <<world, seqLoaded, acc, proc, mfd, running, interfaces, routes_ipv4, routes_ipv6, seq,
                   rx, inq, ifx, reps, opsLeft, disp, obs>>

\* where a call goes once its socket is bound
AfterBind(n) ==
    CASE IsRouteOp(n) -> "rt_lookup"
      [] n = "addAddress" -> "aa_lookup"
      [] n = "removeAddress" -> "ra_lookup"
      [] OTHER -> "tx_send"

\* (mutant) the call binds with nl_pid = 0 and the kernel gives every socket
\* an address of its own
TxBindAuto(t) ==
    /\ proc = "alive" /\ pc[t] = "tx_bind"
    /\ \/ /\ socks' = [socks EXCEPT ![fd[t]] = [@ EXCEPT !.st = "bound", !.pid = "auto"]]
          /\ pc' = [pc EXCEPT ![t] = AfterBind(op[t].name)]
          /\ UNCHANGED <<op, seeded, fd, wire, resp>>
       \/ /\ Close(fd[t])
          /\ fd' = [fd EXCEPT ![t] = -1]
          /\ Ret(t)
    /\ ifx' = [ifx EXCEPT ![t] = -1]
    /\ reps' = [reps EXCEPT ![t] = 0]
    /\ UNCHANGED <<world, seqLoaded, acc, proc, mfd, running, interfaces, routes_ipv4, routes_ipv6, seq,
                   rx, inq, opsLeft, disp, obs>>

\* bind to nl_pid = getpid(): fails when the kernel refuses, as it does when
\* another open socket of the process is bound to that nl_pid
TxBind(t) ==
    /\ proc = "alive" /\ pc[t] = "tx_bind"
    /\ \/ /\ \A g \in FdSet : socks[g].st = "bound" => socks[g].pid # "getpid"
          /\ socks' = [socks EXCEPT ![fd[t]] = [@ EXCEPT !.st = "bound", !.pid = "getpid"]]
          /\ pc' = [pc EXCEPT ![t] = AfterBind(op[t].name)]
          /\ UNCHANGED <<op, seeded, fd, wire, resp>>
       \/ /\ Close(fd[t])
          /\ fd' = [fd EXCEPT ![t] = -1]
          /\ Ret(t)
    /\ ifx' = [ifx EXCEPT ![t] = -1]
    /\ reps' = [reps EXCEPT ![t] = 0]
    /\ UNCHANGED <<world, seqLoaded, acc, proc, mfd, running, interfaces, routes_ipv4, routes_ipv6, seq,
                   rx, inq, opsLeft, disp, obs>>

\* addRoute / delRoute, lines 660-662: the index for ifaceName, when given
RtLookup(t) ==
    /\ proc = "alive" /\ pc[t] = "rt_lookup"
    /\ \E i \in (IF op[t].hasIf THEN IndexForInterface(interfaces, op[t].iface) ELSE {-1}) :
          ifx' = [ifx EXCEPT ![t] = i]
    /\ pc' = [pc EXCEPT ![t] = "tx_send"]
    /\ acc' = [acc EXCEPT ![t] = IF op[t].hasIf THEN IfAcc ELSE @]
    /\ UNCHANGED <<world, seqLoaded, proc, op, fd, mfd, socks, running, interfaces, routes_ipv4,
                   routes_ipv6, seq, rx, inq, resp, wire, reps, opsLeft, seeded, disp, obs>>

\* (mutant) the lookup-failure path returns without close(fd)
LookupFailedLeaks(t) ==
    /\ UNCHANGED socks
    /\ fd' = [fd EXCEPT ![t] = -1]
    /\ Ret(t)

\* the lookup failed for good: fprintf, close(fd), return (lines 858-862, 970-974)
LookupFailed(t) ==
    /\ Close(fd[t])
    /\ fd' = [fd EXCEPT ![t] = -1]
    /\ Ret(t)

\* (mutant) addAddress gives up at the first failed lookup
AaLookupNoRetry(t) ==
    /\ proc = "alive" /\ pc[t] = "aa_lookup"
    /\ \E i \in IndexForInterface(interfaces, op[t].iface) :
          /\ ifx' = [ifx EXCEPT ![t] = i]
          /\ IF i # -1
             THEN /\ pc' = [pc EXCEPT ![t] = "tx_send"]
                  /\ UNCHANGED <<op, seeded, fd, socks, wire, resp>>
             ELSE LookupFailed(t)
    /\ acc' = [acc EXCEPT ![t] = IF pc'[t] = "idle" THEN NoAcc ELSE IfAcc]
    /\ UNCHANGED <<world, seqLoaded, proc, mfd, running, interfaces, routes_ipv4, routes_ipv6, seq,
                   rx, inq, reps, opsLeft, disp, obs>>

\* (mutant) addAddress looks the interface up once and retries on the
\* first answer
AaLookupOnce(t) ==
    /\ proc = "alive" /\ pc[t] = "aa_lookup"
    /\ \E i \in (IF reps[t] = 0 THEN IndexForInterface(interfaces, op[t].iface) ELSE {-1}) :
          /\ ifx' = [ifx EXCEPT ![t] = i]
          /\ IF i # -1
             THEN /\ pc' = [pc EXCEPT ![t] = "tx_send"]
                  /\ UNCHANGED <<op, seeded, fd, socks, wire, resp>>
             ELSE IF reps[t] < MaxReps
             THEN /\ pc' = [pc EXCEPT ![t] = "aa_sleep"]
                  /\ UNCHANGED <<op, seeded, fd, socks, wire, resp>>
             ELSE LookupFailed(t)
    /\ acc' = [acc EXCEPT ![t] = IF pc'[t] = "idle" THEN NoAcc ELSE IfAcc]
    /\ UNCHANGED <<world, seqLoaded, proc, mfd, running, interfaces, routes_ipv4, routes_ipv6, seq,
                   rx, inq, reps, opsLeft, disp, obs>>

\* addAddress, lines 852-862: one lookup of the retry loop
AaLookup(t) ==
    /\ proc = "alive" /\ pc[t] = "aa_lookup"
    /\ \E i \in IndexForInterface(interfaces, op[t].iface) :
          /\ ifx' = [ifx EXCEPT ![t] = i]
          /\ IF i # -1
             THEN /\ pc' = [pc EXCEPT ![t] = "tx_send"]
                  /\ UNCHANGED <<op, seeded, fd, socks, wire, resp>>
             ELSE IF reps[t] < MaxReps
             THEN /\ pc' = [pc EXCEPT ![t] = "aa_sleep"]
                  /\ UNCHANGED <<op, seeded, fd, socks, wire, resp>>
             ELSE LookupFailed(t)
    /\ acc' = [acc EXCEPT ![t] = IF pc'[t] = "idle" THEN NoAcc ELSE IfAcc]
    /\ UNCHANGED <<world, seqLoaded, proc, mfd, running, interfaces, routes_ipv4, routes_ipv6, seq,
                   rx, inq, reps, opsLeft, disp, obs>>

\* (mutant) addAddress takes the lock on _if_m around its retry loop and
\* sleeps holding it
AaSleepHoldsGuard(t) ==
    /\ proc = "alive" /\ pc[t] = "aa_sleep"
    /\ reps' = [reps EXCEPT ![t] = @ + 1]
    /\ pc' = [pc EXCEPT ![t] = "aa_lookup"]
    /\ acc' = [acc EXCEPT ![t] = IfAcc]
    /\ UNCHANGED <<world, seqLoaded, proc, op, fd, mfd, socks, running, interfaces, routes_ipv4,
                   routes_ipv6, seq, rx, inq, resp, wire, ifx, opsLeft, seeded, disp, obs>>

\* line 854: Thread::sleep(100), then ++reps
AaSleep(t) ==
    /\ proc = "alive" /\ pc[t] = "aa_sleep"
    /\ reps' = [reps EXCEPT ![t] = @ + 1]
    /\ pc' = [pc EXCEPT ![t] = "aa_lookup"]
    /\ acc' = [acc EXCEPT ![t] = NoAcc]
    /\ UNCHANGED <<world, seqLoaded, proc, op, fd, mfd, socks, running, interfaces, routes_ipv4,
                   routes_ipv6, seq, rx, inq, resp, wire, ifx, opsLeft, seeded, disp, obs>>

\* removeAddress, lines 968-974: one lookup, no retry
RaLookup(t) ==
    /\ proc = "alive" /\ pc[t] = "ra_lookup"
    /\ \E i \in IndexForInterface(interfaces, op[t].iface) :
          /\ ifx' = [ifx EXCEPT ![t] = i]
          /\ IF i # -1
             THEN /\ pc' = [pc EXCEPT ![t] = "tx_send"]
                  /\ UNCHANGED <<op, seeded, fd, socks, wire, resp>>
             ELSE LookupFailed(t)
    /\ acc' = [acc EXCEPT ![t] = IF pc'[t] = "idle" THEN NoAcc ELSE IfAcc]
    /\ UNCHANGED <<world, seqLoaded, proc, mfd, running, interfaces, routes_ipv4, routes_ipv6, seq,
                   rx, inq, reps, opsLeft, disp, obs>>

\* the request a call builds, with nlmsg_seq = ++_seq
Request(o, i, sq) ==
    CASE o.name = "addRoute" -> RouteRequest(RTM_NEWROUTE, 1541, o.target, o.via, o.src, i, sq)
      [] o.name = "delRoute" -> RouteRequest(RTM_DELROUTE, 1, o.target, o.via, o.src, i, sq)
      [] o.name = "addAddress" ->
            AddressRequest(RTM_NEWADDR, 1537, o.target, Broadcast(o.target), o.iface, i, sq)
      [] o.name = "removeAddress" ->
            AddressRequest(RTM_DELADDR, 1, o.target, Broadcast(o.target), o.iface, i, sq)
      [] OTHER -> DumpRequest(o.name, sq)

\* the request structure a mutating call has filled in when it calls sendmsg
RequestBuffer(o, i, sq) ==
    CASE o.name = "addRoute" -> RouteBuffer(RTM_NEWROUTE, 1541, o.target, o.via, o.src, i, sq)
      [] o.name = "delRoute" -> RouteBuffer(RTM_DELROUTE, 1, o.target, o.via, o.src, i, sq)
      [] o.name = "addAddress" ->
            AddressBuffer(RTM_NEWADDR, 1537, o.target, Broadcast(o.target), o.iface, i, sq)
      [] OTHER ->
            AddressBuffer(RTM_DELADDR, 1, o.target, Broadcast(o.target), o.iface, i, sq)

\* ++_seq, first half: the read of _seq.  No lock is taken around the
\* increment, so another thread's read or store can come between this read
\* and the store
SeqLoad(t) ==
    /\ proc = "alive" /\ pc[t] = "tx_send" /\ seqLoaded[t] = -1
    /\ seqLoaded' = [seqLoaded EXCEPT ![t] = seq]
    /\ UNCHANGED <<world, acc, proc, pc, op, fd, mfd, socks, running, interfaces, routes_ipv4,
                   routes_ipv6, seq, rx, inq, resp, wire, ifx, reps, opsLeft, seeded, disp, obs>>

\* ++_seq, second half: the store of the value read plus one, which goes
\* into nlmsg_seq; the rest of the request is built and sent with sendmsg;
\* the kernel queues its response
TxSend(t) ==
    /\ proc = "alive" /\ pc[t] = "tx_send" /\ seqLoaded[t] # -1
    /\ seq' = seqLoaded[t] + 1
    /\ seqLoaded' = [seqLoaded EXCEPT ![t] = -1]
    /\ wire' = [wire EXCEPT ![t] = Request(op[t], ifx[t], seqLoaded[t] + 1)]
    /\ \E r \in Responses(op[t].name) :
          /\ inq' = [inq EXCEPT ![t] = r]
          /\ resp' = [resp EXCEPT ![t] = r]
    /\ pc' = [pc EXCEPT ![t] = "recv"]
    /\ acc' = [acc EXCEPT ![t] = NoAcc]
    /\ UNCHANGED <<world, proc, op, fd, mfd, socks, running, interfaces, routes_ipv4,
                   routes_ipv6, rx, ifx, reps, opsLeft, seeded, disp, obs>>

\* close(fd) at the end of the call
TxClose(t) ==
    /\ proc = "alive" /\ pc[t] = "tx_close"
    /\ Close(fd[t])
    /\ fd' = [fd EXCEPT ![t] = -1]
    /\ inq' = [inq EXCEPT ![t] = <<>>]
    /\ Ret(t)
    /\ UNCHANGED <<world, seqLoaded, acc, proc, mfd, running, interfaces, routes_ipv4, routes_ipv6, seq,
                   rx, ifx, reps, opsLeft, disp, obs>>

(***************************************************************************)
(* _doRecv and _processMessage, lines 104-219.                              *)
(***************************************************************************)
\* valloc, which ends the process when it fails; then recv() and the loop
\* body up to the call of _processMessage.  A frame f lands at buf; what
\* follows it in the buffer was never written by this call.  rtn <= 0 is a
\* timeout or an error.
Received(t, f, j) ==
    /\ rx' = [rx EXCEPT ![t] = [buf |-> f \o j, rtn |-> Len(f), off |-> 0,
                                nll |-> RecvNll(f \o j, Len(f))]]
    /\ pc' = [pc EXCEPT ![t] = IF RecvNll(f \o j, Len(f)) = -1 THEN "rcv_ret" ELSE "pm"]

TimedOut(t) ==
    /\ rx' = [rx EXCEPT ![t] = [NoRx EXCEPT !.rtn = -1]]
    /\ pc' = [pc EXCEPT ![t] = "rcv_ret"]

Recv(t) ==
    /\ proc = "alive" /\ pc[t] = "recv"
    /\ \/ /\ disp' = [disp EXCEPT ![t] = <<>>]
          /\ IF t = "mon"
             THEN /\ \/ \E f \in MonFrames, j \in Junk : Received(t, f, j)
                     \/ TimedOut(t)
                  /\ UNCHANGED inq
             ELSE IF inq[t] = <<>>
             THEN TimedOut(t) /\ UNCHANGED inq
             ELSE /\ \E j \in Junk : Received(t, Head(inq[t]), j)
                  /\ inq' = [inq EXCEPT ![t] = Tail(@)]
          /\ UNCHANGED proc
       \/ /\ AllocFails
          /\ proc' = "exited"
          /\ UNCHANGED <<disp, rx, pc, inq>>
    /\ UNCHANGED <<world, seqLoaded, acc, op, fd, mfd, socks, running, interfaces, routes_ipv4,
                   routes_ipv6, seq, resp, wire, ifx, reps, opsLeft, seeded, obs>>

\* the message _processMessage's loop is at, and its type
AtMsg(t) == pc[t] = "pm" /\ NlmsgOk(rx[t].buf, rx[t].off, rx[t].nll)

MsgType(t) == U16(rx[t].buf, rx[t].off + 4)

\* nlp = NLMSG_NEXT(nlp, nll), and the record of the message dispatched
Advance(t) ==
    LET len == U32(rx[t].buf, rx[t].off)
    IN  /\ rx' = [rx EXCEPT ![t] = [@ EXCEPT !.off = @ + Align4(len), !.nll = @ - Align4(len)]]
        /\ disp' = [disp EXCEPT ![t] = Append(@, Bytes(rx[t].buf, rx[t].off, len))]

\* what a handler run did with the message at the loop's position
Observe(t, kind, st) ==
    [kind |-> kind, thread |-> t, index |-> U32(rx[t].buf, rx[t].off + NLMSG_HDRLEN + 4),
     len |-> U32(rx[t].buf, rx[t].off), hi |-> st.hi - rx[t].off, over |-> st.over,
     walk |-> WalkLen(kind, rx[t].buf, rx[t].off), cap |-> NameCap(kind), wrote |-> st.wrote,
     had |-> U32(rx[t].buf, rx[t].off + NLMSG_HDRLEN + 4) \in DOMAIN interfaces]

\* a memcpy that ran past the end of a stack buffer: the process goes on
\* or is ended
AfterCopy(st, cap) ==
    IF st.wrote > cap THEN proc' \in {"alive", "smashed"} ELSE UNCHANGED proc

\* case RTM_NEWLINK: _linkAdded
PmLinkAdded(t) ==
    /\ proc = "alive" /\ AtMsg(t) /\ MsgType(t) = RTM_NEWLINK
    /\ LET st == Decode("linkAdded", rx[t].buf, rx[t].off)
       IN  /\ interfaces' = LinkAddedEffect(interfaces,
                                U32(rx[t].buf, rx[t].off + NLMSG_HDRLEN + 4), st)
           /\ obs' = Observe(t, "linkAdded", st)
           /\ AfterCopy(st, IFNAMSIZ)
    /\ Advance(t)
    /\ acc' = [acc EXCEPT ![t] = IfAcc]
    /\ UNCHANGED <<world, seqLoaded, pc, op, fd, mfd, socks, running, routes_ipv4, routes_ipv6, seq,
                   inq, resp, wire, ifx, reps, opsLeft, seeded>>

\* case RTM_DELLINK: _linkDeleted
PmLinkDeleted(t) ==
    /\ proc = "alive" /\ AtMsg(t) /\ MsgType(t) = RTM_DELLINK
    /\ LET st == Decode("linkDeleted", rx[t].buf, rx[t].off)
       IN  /\ interfaces' = LinkDeletedEffect(interfaces,
                                U32(rx[t].buf, rx[t].off + NLMSG_HDRLEN + 4))
           /\ obs' = Observe(t, "linkDeleted", st)
           /\ AfterCopy(st, DelNameCap)
    /\ Advance(t)
    /\ acc' = [acc EXCEPT ![t] = IfAcc]
    /\ UNCHANGED <<world, seqLoaded, pc, op, fd, mfd, socks, running, routes_ipv4, routes_ipv6, seq,
                   inq, resp, wire, ifx, reps, opsLeft, seeded>>

\* case RTM_NEWADDR, RTM_DELADDR: _ipAddressAdded, _ipAddressDeleted
PmIpAddress(t) ==
    /\ proc = "alive" /\ AtMsg(t) /\ MsgType(t) \in {RTM_NEWADDR, RTM_DELADDR}
    /\ obs' = Observe(t, "ipAddress", Decode("ipAddress", rx[t].buf, rx[t].off))
    /\ Advance(t)
    /\ UNCHANGED <<world, seqLoaded, acc, proc, pc, op, fd, mfd, socks, running, interfaces, routes_ipv4,
                   routes_ipv6, seq, inq, resp, wire, ifx, reps, opsLeft, seeded>>

\* (mutant) the route handlers record the message in _routes_ipv4
PmRouteStores(t) ==
    /\ proc = "alive" /\ AtMsg(t) /\ MsgType(t) \in {RTM_NEWROUTE, RTM_DELROUTE}
    /\ obs' = Observe(t, "route", Decode("route", rx[t].buf, rx[t].off))
    /\ routes_ipv4' = Append(routes_ipv4, MsgType(t))
    /\ Advance(t)
    /\ UNCHANGED <<world, seqLoaded, acc, proc, pc, op, fd, mfd, socks, running, interfaces,
                   routes_ipv6, seq, inq, resp, wire, ifx, reps, opsLeft, seeded>>

\* case RTM_NEWROUTE, RTM_DELROUTE: _routeAdded, _routeDeleted
PmRoute(t) ==
    /\ proc = "alive" /\ AtMsg(t) /\ MsgType(t) \in {RTM_NEWROUTE, RTM_DELROUTE}
    /\ obs' = Observe(t, "route", Decode("route", rx[t].buf, rx[t].off))
    /\ Advance(t)
    /\ UNCHANGED <<world, seqLoaded, acc, proc, pc, op, fd, mfd, socks, running, interfaces, routes_ipv4,
                   routes_ipv6, seq, inq, resp, wire, ifx, reps, opsLeft, seeded>>

\* default: break
PmOther(t) ==
    /\ proc = "alive" /\ AtMsg(t) /\ HandlerOf(MsgType(t)) = ""
    /\ Advance(t)
    /\ UNCHANGED <<world, seqLoaded, acc, proc, pc, op, fd, mfd, socks, running, interfaces, routes_ipv4,
                   routes_ipv6, seq, inq, resp, wire, ifx, reps, opsLeft, seeded, obs>>

\* NLMSG_OK fails: _processMessage returns, and _doRecv leaves its loop
PmEnd(t) ==
    /\ proc = "alive" /\ pc[t] = "pm" /\ ~NlmsgOk(rx[t].buf, rx[t].off, rx[t].nll)
    /\ pc' = [pc EXCEPT ![t] = "rcv_ret"]
    /\ UNCHANGED <<world, seqLoaded, acc, proc, op, fd, mfd, socks, running, interfaces, routes_ipv4,
                   routes_ipv6, seq, rx, inq, resp, wire, ifx, reps, opsLeft, seeded, disp, obs>>

\* free(buf); return rtn: to the transaction, or to threadMain's test of rtn
RecvReturn(t) ==
    /\ proc = "alive" /\ pc[t] = "rcv_ret"
    /\ pc' = [pc EXCEPT ![t] = IF t = "mon"
                                 THEN (IF rx[t].rtn <= 0 THEN "mon_sleep" ELSE "mon_loop")
                                 ELSE "tx_close"]
    /\ rx' = [rx EXCEPT ![t] = NoRx]
    /\ disp' = [disp EXCEPT ![t] = <<>>]
    /\ obs' = IF obs.thread = t THEN NoObs ELSE obs
    /\ acc' = [acc EXCEPT ![t] = NoAcc]
    /\ UNCHANGED <<world, seqLoaded, proc, op, fd, mfd, socks, running, interfaces, routes_ipv4,
                   routes_ipv6, seq, inq, resp, wire, ifx, reps, opsLeft, seeded>>

(***************************************************************************)
(* threadMain, lines 178-189; the callers; the destructor, lines 84-89.    *)
(***************************************************************************)
\* while(_running)
MonLoop ==
    /\ proc = "alive" /\ pc["mon"] = "mon_loop"
    /\ pc' = [pc EXCEPT !["mon"] = IF running THEN "recv" ELSE "mon_done"]
    /\ UNCHANGED <<world, seqLoaded, acc, proc, op, fd, mfd, socks, running, interfaces, routes_ipv4,
                   routes_ipv6, seq, rx, inq, resp, wire, ifx, reps, opsLeft, seeded, disp, obs>>

\* (mutant) threadMain leaves its loop after a non-positive _doRecv
MonSleepBreaks ==
    /\ proc = "alive" /\ pc["mon"] = "mon_sleep"
    /\ pc' = [pc EXCEPT !["mon"] = "mon_done"]
    /\ UNCHANGED <<world, seqLoaded, acc, proc, op, fd, mfd, socks, running, interfaces, routes_ipv4,
                   routes_ipv6, seq, rx, inq, resp, wire, ifx, reps, opsLeft, seeded, disp, obs>>

\* Thread::sleep(100); continue
MonSleep ==
    /\ proc = "alive" /\ pc["mon"] = "mon_sleep"
    /\ pc' = [pc EXCEPT !["mon"] = "mon_loop"]
    /\ UNCHANGED <<world, seqLoaded, acc, proc, op, fd, mfd, socks, running, interfaces, routes_ipv4,
                   routes_ipv6, seq, rx, inq, resp, wire, ifx, reps, opsLeft, seeded, disp, obs>>

\* the instance is constructed and its destructor has not been entered
Constructed == pc["mon"] # "unborn" /\ pc["main"] \notin {"dtor_join", "dtor_close", "gone"}

\* a caller starts addRoute, delRoute, addAddress or removeAddress
Call(t) ==
    /\ proc = "alive" /\ pc[t] = "idle" /\ opsLeft > 0
    /\ t = "main" \/ (world = "callers" /\ Constructed)
    /\ \E o \in OpChoices :
          /\ op' = [op EXCEPT ![t] = o]
          /\ pc' = [pc EXCEPT ![t] = IF IsGetOp(o.name) THEN "get_routes" ELSE "tx_socket"]
          /\ acc' = [acc EXCEPT ![t] = IF IsGetOp(o.name) THEN RoutesAcc(o.name) ELSE @]
    /\ opsLeft' = opsLeft - 1
    /\ UNCHANGED <<world, seqLoaded, proc, fd, mfd, socks, running, interfaces, routes_ipv4, routes_ipv6,
                   seq, rx, inq, resp, wire, ifx, reps, seeded, disp, obs>>

\* what getIPV4Routes and getIPV6Routes return, lines 1053 and 1058
GetIPV4Routes == routes_ipv4

GetIPV6Routes == routes_ipv6

\* getIPV4Routes / getIPV6Routes, lines 1051-1059: the copy of the
\* collection is made and returned
GetRoutes(t) ==
    /\ proc = "alive" /\ pc[t] = "get_routes"
    /\ Ret(t)
    /\ acc' = [acc EXCEPT ![t] = NoAcc]
    /\ UNCHANGED <<world, seqLoaded, proc, fd, mfd, socks, running, interfaces, routes_ipv4, routes_ipv6,
                   seq, rx, inq, ifx, reps, opsLeft, disp, obs>>

\* line 86
DtorStop ==
    /\ proc = "alive" /\ \A t \in Callers : pc[t] = "idle"
    /\ running' = FALSE
    /\ pc' = [pc EXCEPT !["main"] = "dtor_join"]
    /\ UNCHANGED <<world, seqLoaded, acc, proc, op, fd, mfd, socks, interfaces, routes_ipv4, routes_ipv6, seq,
                   rx, inq, resp, wire, ifx, reps, opsLeft, seeded, disp, obs>>

\* (mutant) the destructor goes on to close the socket without waiting for
\* threadMain to return
DtorJoinNoWait ==
    /\ proc = "alive" /\ pc["main"] = "dtor_join"
    /\ pc' = [pc EXCEPT !["main"] = "dtor_close"]
    /\ UNCHANGED <<world, seqLoaded, acc, proc, op, fd, mfd, socks, running, interfaces, routes_ipv4,
                   routes_ipv6, seq, rx, inq, resp, wire, ifx, reps, opsLeft, seeded, disp, obs>>

\* line 87: Thread::join returns once threadMain has returned
DtorJoin ==
    /\ proc = "alive" /\ pc["main"] = "dtor_join" /\ pc["mon"] = "mon_done"
    /\ pc' = [pc EXCEPT !["main"] = "dtor_close"]
    /\ UNCHANGED <<world, seqLoaded, acc, proc, op, fd, mfd, socks, running, interfaces, routes_ipv4,
                   routes_ipv6, seq, rx, inq, resp, wire, ifx, reps, opsLeft, seeded, disp, obs>>

\* line 88
DtorClose ==
    /\ proc = "alive" /\ pc["main"] = "dtor_close"
    /\ Close(mfd)
    /\ pc' = [pc EXCEPT !["main"] = "gone"]
    /\ UNCHANGED <<world, seqLoaded, acc, proc, op, fd, mfd, running, interfaces, routes_ipv4, routes_ipv6,
                   seq, rx, inq, resp, wire, ifx, reps, opsLeft, seeded, disp, obs>>

Construct == CtorSocket \/ CtorBind \/ CtorRun \/ CtorStart

Transact(t) == TxSocket(t) \/ TxBind(t) \/ SeqLoad(t) \/ TxSend(t) \/ TxClose(t)

Resolve(t) == RtLookup(t) \/ AaLookup(t) \/ AaSleep(t) \/ RaLookup(t)

DoRecv(t) ==
    \/ Recv(t) \/ PmLinkAdded(t) \/ PmLinkDeleted(t) \/ PmIpAddress(t) \/ PmRoute(t)
    \/ PmOther(t) \/ PmEnd(t) \/ RecvReturn(t)

Monitor == MonLoop \/ MonSleep

Destruct == DtorStop \/ DtorJoin \/ DtorClose

\* the program with callers
Next ==
    \/ Construct
    \/ \E t \in Threads : Transact(t) \/ Resolve(t) \/ DoRecv(t) \/ Call(t) \/ GetRoutes(t)
    \/ Monitor
    \/ Destruct

\* the program constructed, monitoring and destroyed, with no calls made
NextDecode ==
    \/ Construct
    \/ \E t \in Threads : Transact(t) \/ DoRecv(t)
    \/ Monitor
    \/ Destruct

\* the program with callers, where the only notifications are for links
NextBuild ==
    \/ Construct
    \/ \E t \in Threads :
          \/ Transact(t) \/ Resolve(t) \/ Call(t) \/ GetRoutes(t)
          \/ Recv(t) \/ PmLinkAdded(t) \/ PmLinkDeleted(t) \/ PmRoute(t) \/ PmEnd(t)
          \/ RecvReturn(t)
    \/ Monitor
    \/ Destruct

\* the program with two threads calling addRoute and addAddress at once
NextCallers ==
    \/ Construct
    \/ \E t \in Threads :
          \/ Transact(t) \/ RtLookup(t) \/ AaLookup(t) \/ AaSleep(t) \/ Call(t)
          \/ Recv(t) \/ PmLinkAdded(t) \/ PmRoute(t) \/ PmOther(t) \/ PmEnd(t)
          \/ RecvReturn(t)
    \/ Monitor
    \/ Destruct

\* the program constructed, monitoring and destroyed where setsockopt and
\* valloc can fail
NextFaults ==
    \/ Construct
    \/ \E t \in Threads :
          \/ Transact(t)
          \/ Recv(t) \/ PmLinkAdded(t) \/ PmLinkDeleted(t) \/ PmRoute(t) \/ PmEnd(t)
          \/ RecvReturn(t)
    \/ Monitor
    \/ Destruct

\* the socket a thread's _doRecv reads
RecvSock(t) == IF t = "mon" THEN mfd ELSE fd[t]

\* the outcomes of recv the kernel guarantees: a frame already queued for
\* an ephemeral socket, and the timeout when SO_RCVTIMEO is in force; a
\* notification may never come
RecvOwn(t) ==
    /\ Recv(t)
    /\ IF rx'[t].rtn > 0 THEN t # "mon" ELSE socks[RecvSock(t)].tmo

\* the steps a thread takes once scheduled, the process going on
OwnStep(t) ==
    /\ proc' = proc
    /\ \/ t = "main" /\ (Construct \/ DtorJoin \/ DtorClose)
       \/ Transact(t) \/ RecvOwn(t)
       \/ PmLinkAdded(t) \/ PmLinkDeleted(t) \/ PmRoute(t) \/ PmEnd(t) \/ RecvReturn(t)
       \/ t = "mon" /\ Monitor

\* every runnable thread is scheduled
Fairness == \A t \in Threads : WF_vars(OwnStep(t))

Spec == Init /\ [][Next]_vars

SpecFaults == InitFaults /\ [][NextFaults]_vars /\ Fairness

SpecBuild == InitBuild /\ [][NextBuild]_vars

SpecCallers == InitCallers /\ [][NextCallers]_vars

SpecDecode == InitDecode /\ [][NextDecode]_vars

(***************************************************************************)
(* The wire as the design reads it: the messages of a frame, each of its   *)
(* own nlmsg_len, and the attributes of a message within that length.      *)
(***************************************************************************)
\* the messages of frame f from offset o on
RECURSIVE FrameMsgs(_, _)
FrameMsgs(f, o) ==
    IF o + NLMSG_HDRLEN > Len(f) \/ U32(f, o) < NLMSG_HDRLEN THEN <<>>
    ELSE <<Bytes(f, o, U32(f, o))>> \o FrameMsgs(f, o + Align4(U32(f, o)))

\* the messages of a sequence of frames, in wire order
RECURSIVE AllMsgs(_)
AllMsgs(frames) ==
    IF frames = <<>> THEN <<>>
    ELSE FrameMsgs(Head(frames), 0) \o AllMsgs(Tail(frames))

\* a data frame of a multi-part response, and the frame that ends it
IsDataFrame(f) ==
    /\ Len(f) >= NLMSG_HDRLEN
    /\ HasFlag(U16(f, 6), NLM_F_MULTI)
    /\ U16(f, 4) \notin {NLMSG_NOOP, NLMSG_ERROR, NLMSG_DONE, NLMSG_OVERRUN}

IsDoneFrame(f) == Len(f) >= NLMSG_HDRLEN /\ U16(f, 4) = NLMSG_DONE

\* a complete dump response: data frames, then the done frame
IsDump(r) ==
    /\ Len(r) >= 1
    /\ IsDoneFrame(r[Len(r)])
    /\ \A i \in 1..(Len(r) - 1) : IsDataFrame(r[i])

DataFrames(r) == SubSeq(r, 1, Len(r) - 1)

\* s cut or zero-padded to n bytes
Pad(s, n) == [i \in 1..n |-> IF i <= Len(s) THEN s[i] ELSE 0]

\* the payloads of message m's attributes of one type, in order, walked
\* over the payload that follows a fixed header of hdr bytes
AttrPayloads(m, hdr, type) ==
    LET start == NLMSG_HDRLEN + Align4(hdr)
        offs == RtaWalk(m, start, Len(m) - start)
        mine == SelectSeq(offs, LAMBDA o : U16(m, o + 2) = type)
    IN  [i \in 1..Len(mine) |-> Bytes(m, mine[i] + RTA_HDRLEN, U16(m, mine[i]) - RTA_HDRLEN)]

\* the last payload of a type, or <<>> when the message has none
LastPayload(m, hdr, type) ==
    LET ps == AttrPayloads(m, hdr, type)
    IN  IF ps = <<>> THEN <<>> ELSE ps[Len(ps)]

\* the interface index of a link message
LinkIndex(m) == U32(m, NLMSG_HDRLEN + 4)

\* the name a link message carries
LinkName(m) == CStr(LastPayload(m, SizeofIfinfomsg, IFLA_IFNAME))

\* the record a link-added message describes: absent MAC all zero, absent MTU 0
LinkRecord(m) ==
    [index |-> LinkIndex(m),
     ifacename |-> Pad(LinkName(m), IFNAMSIZ),
     mac_bin |-> Pad(LastPayload(m, SizeofIfinfomsg, IFLA_ADDRESS), MacLen),
     mtu |-> U32(LastPayload(m, SizeofIfinfomsg, IFLA_MTU), 0)]

\* the attribute types of a route request as the kernel parses the bytes sent
SentAttrTypes(w) ==
    LET start == NLMSG_HDRLEN + Align4(SizeofRtmsg)
        offs == RtaWalk(w, start, Len(w) - start)
    IN  [i \in 1..Len(offs) |-> U16(w, offs[i] + 2)]

Count(types, ty) == Len(SelectSeq(types, LAMBDA x : x = ty))

\* the positions of a thread inside a call that holds an ephemeral socket
CallStages ==
    {"tx_bind", "rt_lookup", "aa_lookup", "aa_sleep", "ra_lookup", "tx_send", "recv", "pm",
     "rcv_ret", "tx_close"}

\* the first message of the frame thread t received is an error frame
\* without the acknowledgement flag, or a no-op
FirstStops(t) ==
    /\ rx[t].rtn > 0
    /\ \/ U16(rx[t].buf, 4) = NLMSG_NOOP
       \/ U16(rx[t].buf, 4) = NLMSG_ERROR /\ ~HasFlag(U16(rx[t].buf, 6), NLM_F_ACK)

(***************************************************************************)
(* Properties.                                                              *)
(***************************************************************************)
\* C1: the monitor socket is created and bound before any request is sent;
\* _running is set, and the background thread exists and dispatches, only
\* once all three seeding dumps have returned; the thread is started only
\* after _running was set.
C1_ConstructionOrder ==
    /\ seq > 0 =>
          /\ mfd \in FdSet
          /\ \/ pc["main"] = "gone"
             \/ socks[mfd].st = "bound" /\ socks[mfd].pid = "getpid+1"
    /\ running => seeded = SeedOps /\ op["main"].name \notin SeedOps
    /\ pc["mon"] # "unborn" =>
          /\ seeded = SeedOps
          /\ running \/ pc["main"] \in {"dtor_join", "dtor_close", "gone"}
    /\ obs.thread = "mon" => seeded = SeedOps

\* the background thread is in _processMessage, after a seeding that
\* filled the interface cache
C1_Witness ==
    /\ pc["mon"] = "pm" /\ running /\ seeded = SeedOps
    /\ DOMAIN interfaces # {}

\* C2: after seeding from a complete dump response, whatever its number of
\* frames, every interface of the response is found by name with its index.
C2_SeededLookup ==
    (pc["main"] = "ctor_run" /\ IsDump(resp["main"])) =>
        \A i \in 1..Len(AllMsgs(DataFrames(resp["main"]))) :
            LET m == AllMsgs(DataFrames(resp["main"]))[i]
            IN  U16(m, 4) = RTM_NEWLINK =>
                    IndexForInterface(interfaces, LinkName(m)) = {LinkIndex(m)}

\* C3: when _doRecv returns from a multi-part response, it has received
\* every frame up to the done frame and dispatched every message of every
\* data frame exactly once, in wire order.
C3_MultipartDispatched ==
    \A t \in Threads :
        (pc[t] = "rcv_ret" /\ op[t].name \in SeedOps /\ IsDump(resp[t])) =>
            /\ inq[t] = <<>>
            /\ disp[t] = AllMsgs(DataFrames(resp[t]))

\* C4: when the first message of a received frame is an error frame
\* without the acknowledgement flag, or a no-op, _doRecv leaves its loop
\* without dispatching any message of the frame, and that receive leaves
\* the caches as they were.
C4_ErrorOrNoopStops ==
    /\ [](\A t \in Threads :
            FirstStops(t) => pc[t] = "rcv_ret" /\ disp[t] = <<>> /\ obs.thread # t)
    /\ [][\A t \in Threads :
            (pc[t] = "recv" /\ pc'[t] # "recv" /\ FirstStops(t)') =>
                UNCHANGED <<interfaces, routes_ipv4, routes_ipv6>>]_vars

\* such a frame, carrying a second message, was received and left alone
C4_Witness ==
    \E t \in Threads :
        /\ FirstStops(t) /\ pc[t] = "rcv_ret"
        /\ Len(FrameMsgs(Bytes(rx[t].buf, 0, rx[t].rtn), 0)) > 1

\* C5: every descriptor that is open is the monitor socket, or the
\* ephemeral socket of a call that is still running; once calls have
\* completed, on whatever path, only the monitor socket is open.
C5_EphemeralSocketsClosed ==
    \A f \in FdSet :
        socks[f].st # "free" =>
            \/ f = mfd /\ socks[f].owner = "monitor"
            \/ /\ socks[f].owner = "main" /\ fd["main"] = f
               /\ pc["main"] \in CallStages

\* addAddress has given up after its last retry and returned
C5_Witness ==
    /\ pc["main"] = "idle" /\ opsLeft < MaxOps /\ reps["main"] = MaxReps
    /\ \A f \in FdSet : socks[f].st # "free" => f = mfd

\* C6: a link-removed notification for index i removes the record keyed i
\* when there is one and changes no other record; when there is none the
\* cache is unchanged.
C6_LinkRemovedErasesKey ==
    [][\A t \in Threads :
          (AtMsg(t) /\ MsgType(t) = RTM_DELLINK /\ rx'[t].off # rx[t].off) =>
              LET i == U32(rx[t].buf, rx[t].off + NLMSG_HDRLEN + 4)
              IN  /\ DOMAIN interfaces' = DOMAIN interfaces \ {i}
                  /\ \A k \in DOMAIN interfaces' : interfaces'[k] = interfaces[k]]_vars

\* a record was removed while another stayed
C6_Witness ==
    /\ obs.kind = "linkDeleted" /\ obs.had
    /\ obs.index \notin DOMAIN interfaces
    /\ DOMAIN interfaces # {}

\* C7: every record's index field equals its key (one record per index),
\* and after a link-added notification the record of its index holds the
\* notification's name, MAC and MTU, an absent MAC all zero, an absent MTU 0.
C7_LinkAddedReplaces ==
    /\ \A k \in DOMAIN interfaces : interfaces[k].index = k
    /\ obs.kind = "linkAdded" =>
          LET m == disp[obs.thread][Len(disp[obs.thread])]
          IN  /\ LinkIndex(m) \in DOMAIN interfaces
              /\ interfaces[LinkIndex(m)] = LinkRecord(m)

\* C8: the longest name copy of a handler run fits the handler's buffer.
C8_NameCopyFits == obs.wrote <= obs.cap

\* C9: a handler reads no byte past its message's declared length and no
\* payload byte past its attribute's declared length, and walks exactly
\* the payload that follows its own fixed header.
C9_ReadsInsideMessage ==
    obs.kind # "" =>
        /\ obs.hi <= obs.len
        /\ ~obs.over
        /\ obs.walk = obs.len - (NLMSG_HDRLEN + Align4(FixedHdr(obs.kind)))

\* C10: the request addRoute sends carries one destination attribute with
\* the target's prefix length, a gateway attribute exactly when a gateway
\* is given, a source attribute only when no gateway and a source is
\* given, an egress-interface attribute exactly when a name is given and
\* was found in the cache, and nothing else.
C10_RouteRequestAttributes ==
    \A t \in Threads :
        (op[t].name = "addRoute" /\ wire[t] # <<>>) =>
            LET types == SentAttrTypes(wire[t])
                o == op[t]
            IN  /\ Count(types, RTA_DST) = 1
                /\ Byte(wire[t], NLMSG_HDRLEN + 1) = o.target.bits
                /\ Count(types, RTA_GATEWAY) = (IF o.via.family # 0 THEN 1 ELSE 0)
                /\ Count(types, RTA_SRC) <= 1
                /\ Count(types, RTA_SRC) = 1 => o.via.family = 0 /\ o.src.family # 0
                /\ Count(types, RTA_OIF) = (IF o.hasIf /\ ifx[t] # -1 THEN 1 ELSE 0)
                /\ \A i \in 1..Len(types) :
                      types[i] \in {RTA_DST, RTA_GATEWAY, RTA_SRC, RTA_OIF}

\* the four calls that send a request built from their arguments
IsMutating(n) == n \in {"addRoute", "delRoute", "addAddress", "removeAddress"}

\* the sum of rta_len over the attributes of buffer b from offset o to its end
RECURSIVE AttrLenSum(_, _)
AttrLenSum(b, o) ==
    IF RtaOk(b, o, Len(b) - o) THEN U16(b, o) + AttrLenSum(b, o + Align4(U16(b, o))) ELSE 0

\* where the attributes of a call's request start
AttrStart(n) ==
    NLMSG_HDRLEN + Align4(IF IsRouteOp(n) THEN SizeofRtmsg ELSE SizeofIfaddrmsg)

\* C11: in every request addRoute, delRoute, addAddress and removeAddress
\* send, nlmsg_len is the message header plus the fixed header plus the
\* lengths of all attributes written, and the bytes sent hold all of them.
C11_LengthCoversAttributes ==
    \A t \in Threads :
        (IsMutating(op[t].name) /\ wire[t] # <<>>) =>
            LET buf == RequestBuffer(op[t], ifx[t], U32(wire[t], 8))
            IN  /\ U32(wire[t], 0) = AttrStart(op[t].name) + AttrLenSum(buf, AttrStart(op[t].name))
                /\ Len(wire[t]) = Len(buf)

\* the cache holds a record whose name is n
Known(n) ==
    /\ Len(n) < IFNAMSIZ
    /\ \E k \in DOMAIN interfaces : CStr(interfaces[k].ifacename) = n

\* C12: while the interface is not in the cache, addAddress has sent
\* nothing; a failed lookup is followed by a sleep and another lookup until
\* 10 retries were made, and only then by the return, with no request sent.
C12_RetryThenGiveUp ==
    /\ [](\A t \in Threads :
            (op[t].name = "addAddress" /\ pc[t] \in {"aa_lookup", "aa_sleep"}) =>
                reps[t] <= MaxReps /\ wire[t] = <<>>)
    /\ [][\A t \in Threads :
            (op[t].name = "addAddress" /\ pc[t] = "aa_lookup" /\ pc'[t] # "aa_lookup"
               /\ ~Known(op[t].iface)) =>
                /\ seq' = seq
                /\ IF reps[t] < MaxReps
                   THEN pc'[t] = "aa_sleep"
                   ELSE pc'[t] = "idle" /\ socks'[fd[t]].st = "free"]_vars

\* addAddress has returned after its last retry, no request of its own sent
C12_Witness ==
    /\ pc["main"] = "idle" /\ opsLeft = MaxOps - 1
    /\ reps["main"] = MaxReps /\ ifx["main"] = -1
    /\ seq <= Cardinality(SeedOps)

\* C13: the dispatch of a route-added, route-deleted, address-added,
\* address-deleted or unrecognized message leaves the interface cache and
\* both route collections as they were.
C13_OtherNotificationsLeaveCaches ==
    [][\A t \in Threads :
          (AtMsg(t) /\ rx'[t].off # rx[t].off
             /\ MsgType(t) \notin {RTM_NEWLINK, RTM_DELLINK}) =>
              UNCHANGED <<interfaces, routes_ipv4, routes_ipv6>>]_vars

\* the monitor has run a route or address handler over a filled cache
C13_Witness ==
    /\ obs.thread = "mon" /\ obs.kind \in {"route", "ipAddress"}
    /\ DOMAIN interfaces # {}

\* the route-added messages of one address family among msgs
ReportedRoutes(msgs, family) ==
    SelectSeq(msgs, LAMBDA m : U16(m, 4) = RTM_NEWROUTE /\ Byte(m, NLMSG_HDRLEN) = family)

\* C14: once a seeding route dump has read its complete response, the
\* collection of its family holds one record for each route of that family
\* the response reported, and that is what the getter returns.
C14_SeededRoutes ==
    \A t \in Threads :
        (pc[t] = "tx_close" /\ IsDump(resp[t])) =>
            /\ op[t].name = "_requestIPv4Routes" =>
                  Len(GetIPV4Routes) = Len(ReportedRoutes(AllMsgs(DataFrames(resp[t])), AF_INET))
            /\ op[t].name = "_requestIPv6Routes" =>
                  Len(GetIPV6Routes) = Len(ReportedRoutes(AllMsgs(DataFrames(resp[t])), AF_INET6))

\* the guard the class declares for each cache
GuardOf(cache) ==
    CASE cache = "_interfaces" -> "_if_m"
      [] cache = "_routes_ipv4" -> "_rv4_m"
      [] OTHER -> "_rv6_m"

\* C15: every access to a cache is made holding that cache's guard, and no
\* two threads are inside an access to the same cache at once.
C15_AccessesGuarded ==
    /\ \A t \in Threads : acc[t].cache # "" => acc[t].guard = GuardOf(acc[t].cache)
    /\ \A t, u \in Threads :
          (t # u /\ pc[t] = "get_routes" /\ pc[u] = "get_routes") =>
              acc[t].cache # acc[u].cache

\* the monitor thread is inside _doRecv
MonReceiving == pc["mon"] \in {"recv", "pm", "rcv_ret"}

\* C16: on destruction the running flag is cleared first, the thread is
\* joined next and the monitor socket is closed only after the thread has
\* left its loop; the thread never receives on a closed monitor socket.
C16_ShutdownOrder ==
    /\ pc["main"] \in {"dtor_join", "dtor_close", "gone"} => ~running
    /\ pc["main"] \in {"dtor_close", "gone"} => pc["mon"] = "mon_done"
    /\ MonReceiving => (mfd # -1 /\ socks[mfd].st = "bound" /\ socks[mfd].owner = "monitor")
    /\ pc["main"] = "gone" => socks[mfd].st = "free"

C16_Witness ==
    /\ pc["main"] = "gone" /\ pc["mon"] = "mon_done"
    /\ ~running /\ socks[mfd].st = "free"

\* C17: shutdown terminates: once the running flag has been cleared by the
\* destructor, the thread leaves its loop and the destructor's join returns
\* (unless the process has ended), also when setting the socket timeout
\* failed.
C17_ShutdownTerminates ==
    (pc["main"] = "dtor_join") ~> (pc["main"] # "dtor_join" \/ proc # "alive")

\* C18: construction ends the process only at the bind of the monitor
\* socket; a seeding dump that fails (no socket, no bind, a timeout, an
\* error frame) leaves the constructor going on to start the thread, with
\* the interface cache empty when its dump delivered no data and the route
\* collections empty.
C18_OnlyBindEndsConstruction ==
    /\ (proc = "exited" /\ pc["mon"] = "unborn") => pc["main"] = "ctor_bind"
    /\ (pc["main"] = "ctor_run" /\ ~IsDump(resp["main"])) =>
          /\ interfaces = NoIfs
          /\ routes_ipv4 = <<>> /\ routes_ipv6 = <<>>

\* C19: while the running flag is set the thread stays in its receive
\* loop: whatever a receive delivered, _doRecv returns to threadMain, which
\* goes back to the test of the flag (after a sleep when the result was not
\* positive) and receives again when the flag is set; the thread has left
\* the loop only when the flag is cleared.
C19_MonitorStaysInLoop ==
    /\ [](pc["mon"] = "mon_done" => ~running)
    /\ [][(proc' = "alive" /\ pc'["mon"] # pc["mon"]) =>
            /\ pc["mon"] = "mon_loop" => pc'["mon"] = (IF running THEN "recv" ELSE "mon_done")
            /\ pc["mon"] = "recv" => pc'["mon"] \in {"pm", "rcv_ret"}
            /\ pc["mon"] = "pm" => pc'["mon"] = "rcv_ret"
            /\ pc["mon"] = "rcv_ret" =>
                  pc'["mon"] = (IF rx["mon"].rtn <= 0 THEN "mon_sleep" ELSE "mon_loop")
            /\ pc["mon"] = "mon_sleep" => pc'["mon"] = "mon_loop"
            /\ pc["mon"] = "mon_done" => FALSE]_vars

\* the thread is about to return from a receive that delivered an error,
\* no-op or overrun frame, the flag set
C19_Witness ==
    /\ pc["mon"] = "rcv_ret" /\ running /\ proc = "alive"
    /\ rx["mon"].rtn > 0 /\ rx["mon"].nll = -1

\* the indices of the cache's records named n
NamedIndices(n) == {k \in DOMAIN interfaces : CStr(interfaces[k].ifacename) = n}

\* C20: a lookup attempt of addAddress that finds the named interface in
\* the cache, at the first attempt or at a retry after the monitor thread
\* inserted it, goes on to the send with that interface's index; addAddress
\* reaches its send only from such a lookup with nothing sent before, and
\* what it has sent is one address-create request carrying that index.
C20_RetryFindsInsertedInterface ==
    /\ [](\A t \in Threads :
            (op[t].name = "addAddress" /\ pc[t] \in {"recv", "pm", "rcv_ret", "tx_close"}) =>
                /\ ifx[t] # -1
                /\ wire[t] # <<>>
                /\ U16(wire[t], 4) = RTM_NEWADDR
                /\ U32(wire[t], NLMSG_HDRLEN + 4) = ifx[t])
    /\ [][\A t \in Threads :
            op[t].name = "addAddress" =>
                /\ (pc[t] = "aa_lookup" /\ pc'[t] # "aa_lookup" /\ Known(op[t].iface)) =>
                      /\ pc'[t] = "tx_send"
                      /\ ifx'[t] \in NamedIndices(op[t].iface)
                      /\ seq' = seq
                /\ (pc[t] # "tx_send" /\ pc'[t] = "tx_send") =>
                      pc[t] = "aa_lookup" /\ wire[t] = <<>>
                /\ (pc[t] = "tx_send" /\ pc'[t] # "tx_send") =>
                      /\ wire[t] = <<>> /\ wire'[t] # <<>>
                      /\ seq' = seq + 1
                      /\ pc'[t] = "recv"]_vars

\* addAddress has sent its request with index 1 after at least one failed
\* lookup: the interface was inserted while it was retrying
C20_Witness ==
    /\ op["main"].name = "addAddress" /\ pc["main"] = "recv"
    /\ reps["main"] > 0
    /\ U32(wire["main"], NLMSG_HDRLEN + 4) = 1
    /\ 1 \in NamedIndices(op["main"].iface)

\* the step is a sendmsg, a recv or a Thread::sleep of thread t
IsSocketOrSleepStep(t) ==
    \/ pc[t] = "tx_send" /\ pc'[t] = "recv"
    \/ pc[t] = "recv" /\ pc'[t] # "recv"
    \/ pc[t] \in {"aa_sleep", "mon_sleep"} /\ pc'[t] # pc[t]

\* some thread can take a step: one inside _processMessage always can (its
\* loop dispatches the message it is at or ends), the others by their action
CanStep ==
    \/ \E t \in Threads : pc[t] = "pm"
    \/ ENABLED (\/ Construct \/ Monitor \/ Destruct
                \/ \E t \in Threads :
                      \/ Transact(t) \/ Resolve(t) \/ Recv(t) \/ RecvReturn(t)
                      \/ Call(t) \/ GetRoutes(t))

Repeats(m, type) == Len(AttrPayloads(m, SizeofIfinfomsg, type)) >= 2

\* C22: after a link-added message with several attributes of one type,
\* the record holds the last of them: the stored name is the last name
\* attribute exactly, the stored MAC and MTU the last of theirs.
C22_LastAttributeWins ==
    obs.kind = "linkAdded" =>
        LET m == disp[obs.thread][Len(disp[obs.thread])]
            rec == interfaces[LinkIndex(m)]
        IN  /\ Repeats(m, IFLA_IFNAME) => CStr(rec.ifacename) = LinkName(m)
            /\ Repeats(m, IFLA_ADDRESS) => rec.mac_bin = LinkRecord(m).mac_bin
            /\ Repeats(m, IFLA_MTU) => rec.mtu = LinkRecord(m).mtu

\* C23: the byte count _doRecv hands to _processMessage is at most the
\* number of bytes the call received into the buffer, and at most the
\* buffer's capacity, for every frame kind.
C23_DispatchWithinReceived ==
    \A t \in Threads :
        pc[t] = "pm" =>
            /\ rx[t].off + rx[t].nll <= rx[t].rtn
            /\ rx[t].off + rx[t].nll <= ZT_NL_BUF_SIZE

\* C24: a call that is about to bind its ephemeral socket finds the local
\* address it binds to (nl_pid = getpid()) held by no other open socket,
\* so no call in flight makes another call's bind fail.
C24_CallersDoNotInterfere ==
    \A t \in Threads :
        pc[t] = "tx_bind" =>
            \A g \in FdSet : socks[g].st = "bound" => socks[g].pid # "getpid"

\* nlmsg_seq of a request as sent
SentSeq(w) == U32(w, 8)

\* C25: every request carries a sequence number of its own: each send
\* advances the shared counter by one and puts the new value into the
\* request, and no two requests in flight carry the same number.
C25_SequenceNumbersUnique ==
    /\ [](\A t, u \in Threads :
            (t # u /\ wire[t] # <<>> /\ wire[u] # <<>>) =>
                SentSeq(wire[t]) # SentSeq(wire[u]))
    /\ [][\A t \in Threads :
            (wire[t] = <<>> /\ wire'[t] # <<>>) =>
                seq' = seq + 1 /\ SentSeq(wire'[t]) = seq']_vars

\* a second call has been started while the request of the first is in
\* flight on its bound socket
C25_Witness ==
    /\ wire["w"] # <<>> /\ SentSeq(wire["w"]) = seq
    /\ pc["w"] \in {"recv", "pm", "rcv_ret", "tx_close"}
    /\ pc["main"] = "tx_bind" /\ op["main"].name \in {"addRoute", "addAddress"}

====
